---- MODULE Spec2Model ----
(***************************************************************************)
(* Rozelle: the evaluation pipeline of an exercise run.                    *)
(*                                                                         *)
(*   constraints.py  ConstraintLimit, Constraint, ConstraintScanner,       *)
(*                   check_constraints                                     *)
(*   sandbox.py      execute_attempt and its helpers                       *)
(*   exercise.py     Exercise.run and the outcome variants                 *)
(*   watcher.py      watch_display_run and its event handler               *)
(*                                                                         *)
(* The specifications share the variables:                                 *)
(*   SpecScan      check_constraints on bounded trees and constraint       *)
(*                 lists, one generic_visit call per step;                 *)
(*   Spec          Exercise.run, with execute_attempt and the race of the  *)
(*                 engine invocation against the timer inlined;            *)
(*   FairSpec      Spec with the fairness the event loop gives its steps;  *)
(*   SpecAssemble  the assembly loop of execute_attempt, one fragment per  *)
(*                 step, over the calls of one process;                    *)
(*   SpecPrepare   _prepare_python_source on a text and on its result;     *)
(*   SpecWatch     watch_display_run: main thread and observer thread.     *)
(***************************************************************************)
EXTENDS Integers, Sequences, FiniteSets, TLC

\* Bounds of the model.
MaxStmts == 2          \* statements in an attempt source
MaxConstraints == 2    \* constraints in a constraint list given to the scanner
MaxOut == 3            \* tokens in the engine's captured stdout

VARIABLES
    \* --- check_constraints (SpecScan) ---
    tree,               \* the parsed tree, its nodes in visiting (pre-)order
    constraints,        \* the constraint list given to check_constraints
    constraint_counts,  \* ConstraintScanner.constraint_counts
    scan_pos,           \* index of the next node generic_visit is called on
    scan_pc,            \* "idle", "visiting", "returned", "raised"
    scan_result,        \* the set check_constraints returned
    \* --- Exercise.run (Spec) ---
    code,               \* the attempt source read from python_file
    exercise,           \* the Exercise (self)
    pc,                 \* position in Exercise.run / execute_attempt
    python_ast,         \* result of ast.parse(code)
    failed_criticals,   \* result of the critical scan
    stages,             \* the stages evaluated so far, in order
    outcome,            \* the Result returned by Exercise.run
    raised,             \* the exception that left Exercise.run, or "none"
    \* --- execute_attempt ---
    mangle_cache,       \* the memo of _mangle_identifier_if_possible (process-wide)
    assembled,          \* the program text written so far (code, a StringIO)
    invocations,        \* number of sandbox.execute tasks created
    task,               \* "none", "running", "done", "cancelled", "finished_late"
    task_result,        \* what the engine invocation produced
    timer,              \* "unset", "pending", "fired", "dropped"
    sandbox_result,     \* what _sandbox_execute_with_timeout returned
    decoded,            \* the text execute_attempt gave json.loads, if it gave one
    result,             \* the ExecutionResult returned by execute_attempt
    \* --- the assembly loop of execute_attempt, call after call (SpecAssemble) ---
    call,               \* the arguments of the current call of execute_attempt
    asm_pos,            \* index in the assembly of the fragment the loop is at
    asm_pc,             \* "idle", "assembling", "assembled", "syntax_error"
    calls,              \* number of calls made so far in this process
    \* --- _prepare_python_source (SpecPrepare) ---
    prep_text,          \* the argument code
    prep_salt,          \* the argument mangle_salt
    prep_out,           \* the text the last call returned
    prep_pc,            \* "idle", "ready", "returned", "again", "returned_again",
                        \* "syntax_error"
    \* --- watch_display_run (SpecWatch) ---
    w_pc,               \* main thread: "idle", "construct", "initial_run", "start",
                        \* "sleeping", "stopping", "stopped", "crashed"
    w_events,           \* the events the observer has queued so far, in order
    w_next,             \* index of the next event the observer thread dispatches
    w_thread,           \* observer thread: "not_started", "idle", "in_callback",
                        \* "exited"
    w_running,          \* the threads that are inside display_run
    w_triggers,         \* per event, the number of evaluations it has started
    w_fatal             \* what _file_missing reported: "none", "deleted", "moved"

scan_vars == <<tree, constraints, constraint_counts, scan_pos, scan_pc, scan_result>>
run_vars == <<code, exercise, pc, python_ast, failed_criticals, stages, outcome, raised>>
exec_vars ==
    <<mangle_cache, assembled, invocations, task, task_result, timer, sandbox_result,
      decoded, result>>
run_vars_but_pc ==
    <<code, exercise, python_ast, failed_criticals, stages, outcome, raised>>
exec_vars_but_asm ==
    <<invocations, task, task_result, timer, sandbox_result, decoded, result>>
asm_vars == <<call, asm_pos, asm_pc, calls>>
prep_vars == <<prep_text, prep_salt, prep_out, prep_pc>>
watch_vars == <<w_pc, w_events, w_next, w_thread, w_running, w_triggers, w_fatal>>
other_vars == <<asm_vars, prep_vars, watch_vars>>
vars == <<scan_vars, run_vars, exec_vars, other_vars>>

\* Optional values: None is an absent value of the field's type.
Some(v) == [present |-> TRUE, value |-> v]
NoText == [present |-> FALSE, value |-> <<>>]
NoTokens == [present |-> FALSE, value |-> {}]
NoTime == [present |-> FALSE, value |-> 0]

(***************************************************************************)
(* Syntax trees.  A node is its class name plus, for a Call, the callee    *)
(* node (func).  Only a Name node has an `id` attribute.                   *)
(***************************************************************************)
NoFunc == [kind |-> "", id |-> ""]
Node(kind) == [kind |-> kind, func |-> NoFunc]
NameCall(name) == [kind |-> "Call", func |-> [kind |-> "Name", id |-> name]]
AttributeCall == [kind |-> "Call", func |-> [kind |-> "Attribute", id |-> ""]]

\* The attribute lookup node.func.id succeeds only on a Name callee.
HasId(func) == func.kind = "Name"

\* Statements an attempt source is made of; "print(" does not parse.
GoodStmts == {"import os", "from os import path", "exec(s)", "print(s)",
              "s.upper()", "for x in s: pass"}
BadStmt == "print("
Stmts == GoodStmts \cup {BadStmt}

\* The nodes of one statement in the order NodeVisitor.generic_visit reaches them.
StmtNodes(s) ==
    CASE s = "import os" -> <<Node("Import"), Node("alias")>>
      [] s = "from os import path" -> <<Node("ImportFrom"), Node("alias")>>
      [] s = "exec(s)" ->
            <<Node("Expr"), NameCall("exec"), Node("Name"), Node("Load"),
              Node("Name"), Node("Load")>>
      [] s = "print(s)" ->
            <<Node("Expr"), NameCall("print"), Node("Name"), Node("Load"),
              Node("Name"), Node("Load")>>
      [] s = "s.upper()" ->
            <<Node("Expr"), AttributeCall, Node("Attribute"), Node("Name"),
              Node("Load"), Node("Load")>>
      [] s = "for x in s: pass" ->
            <<Node("For"), Node("Name"), Node("Store"), Node("Name"),
              Node("Load"), Node("Pass")>>
      [] OTHER -> <<>>

RECURSIVE BodyNodes(_)
BodyNodes(src) ==
    IF src = <<>> THEN <<>> ELSE StmtNodes(Head(src)) \o BodyNodes(Tail(src))

\* ast.parse: SyntaxError when a statement does not parse, else the Module tree.
AstParse(src) ==
    IF \E i \in 1..Len(src) : src[i] = BadStmt
    THEN [ok |-> FALSE, tree |-> <<>>]
    ELSE [ok |-> TRUE, tree |-> <<Node("Module")>> \o BodyNodes(src)]

RECURSIVE SeqsUpTo(_, _)
SeqsUpTo(S, n) ==
    IF n = 0 THEN {<<>>}
    ELSE LET shorter == SeqsUpTo(S, n - 1)
         IN shorter \cup {Append(q, x) : q \in {t \in shorter : Len(t) = n - 1}, x \in S}

Sources == SeqsUpTo(Stmts, MaxStmts)
GoodSources == SeqsUpTo(GoodStmts, MaxStmts)

(***************************************************************************)
(* constraints.py                                                          *)
(***************************************************************************)
Unset == [set |-> FALSE, value |-> 0]
Limit(n) == [set |-> TRUE, value |-> n]

ConstraintLimit(minimum, maximum) == [minimum |-> minimum, maximum |-> maximum]

\* A variant whose maximum is exclusive.
is_satisfied_StrictMaximum(limits, count) ==
    LET min_satisfied == ~limits.minimum.set \/ count >= limits.minimum.value
        max_satisfied == ~limits.maximum.set \/ count < limits.maximum.value
    IN min_satisfied /\ max_satisfied

is_satisfied(limits, count) ==
    LET min_satisfied == ~limits.minimum.set \/ count >= limits.minimum.value
        max_satisfied == ~limits.maximum.set \/ count <= limits.maximum.value
    IN min_satisfied /\ max_satisfied

Constraint(description, on, match, limits) ==
    [description |-> description, on |-> on, match |-> match, limits |-> limits]

DisallowedCall(name) ==
    Constraint("You cannot use the '" \o name \o "' function.", "call", name,
               ConstraintLimit(Unset, Limit(0)))

DisallowedNode(name, description) ==
    Constraint(description, "node", name, ConstraintLimit(Unset, Limit(0)))

\* The pattern Import(?:From)? of the critical import constraint, on class names.
AstRegexMatches(pattern, name) ==
    pattern = "Import(?:From)?" /\ name \in {"Import", "ImportFrom"}

\* The keys of {c: 0 for c in constraints}: first occurrences, in order.
RECURSIVE Keys(_)
Keys(cs) ==
    IF cs = <<>> THEN <<>>
    ELSE LET front == Keys(SubSeq(cs, 1, Len(cs) - 1))
             last == cs[Len(cs)]
         IN IF \E i \in 1..Len(front) : front[i] = last THEN front
            ELSE Append(front, last)

Range(s) == {s[i] : i \in 1..Len(s)}

\* ConstraintScanner.__init__
ScannerInit(cs) == [c \in Range(cs) |-> 0]

Bump(counts, c) == [counts EXCEPT ![c] = @ + 1]

\* The first test of generic_visit: the node's class name is the target.
NodeTargetHit(node, c) ==
    \/ c.on = "node" /\ node.kind = c.match
    \/ c.on = "ast_regex" /\ AstRegexMatches(c.match, node.kind)

\* A variant that counts every call, whatever its callee.
CallTargetHit_AnyCall(node, c) == TRUE

\* The comparison node.func.id == c.match, once the lookup has succeeded.
CallTargetHit(node, c) == node.func.id = c.match

\* The for loop of generic_visit over the counted constraints, from key i on.
\* Raises AttributeError when node.func has no attribute id.
RECURSIVE VisitLoop(_, _, _, _)
VisitLoop(node, keys, i, counts) ==
    IF i > Len(keys) THEN [raised |-> FALSE, counts |-> counts]
    ELSE LET c == keys[i]
             counts1 == IF NodeTargetHit(node, c) THEN Bump(counts, c) ELSE counts
         IN IF node.kind = "Call" /\ c.on = "call"
            THEN IF ~HasId(node.func)
                 THEN [raised |-> TRUE, counts |-> counts1]
                 ELSE VisitLoop(node, keys, i + 1,
                                IF CallTargetHit(node, c) THEN Bump(counts1, c)
                                ELSE counts1)
            ELSE VisitLoop(node, keys, i + 1, counts1)

generic_visit(node, cs, counts) == VisitLoop(node, Keys(cs), 1, counts)

\* The set comprehension check_constraints returns.
failed_set(cs, counts) ==
    {c \in Range(cs) : ~is_satisfied(c.limits, counts[c])}

\* scanner.visit(python_ast) from node i on, then the returned set.
RECURSIVE ScanFrom(_, _, _, _)
ScanFrom(t, cs, i, counts) ==
    IF i > Len(t) THEN [raised |-> FALSE, failed |-> failed_set(cs, counts)]
    ELSE LET v == generic_visit(t[i], cs, counts)
         IN IF v.raised THEN [raised |-> TRUE, failed |-> {}]
            ELSE ScanFrom(t, cs, i + 1, v.counts)

\* A variant of check_constraints that never reports a constraint.
check_constraints_NoFailures(t, cs) == [raised |-> FALSE, failed |-> {}]

check_constraints(t, cs) == ScanFrom(t, cs, 1, ScannerInit(cs))

\* Constraints the scanner is exercised with.
ForRequired ==
    Constraint("You must use at least one 'for' loop.", "node", "For",
               ConstraintLimit(Limit(1), Unset))
OneCallAtMost ==
    Constraint("You can call at most one function.", "node", "Call",
               ConstraintLimit(Unset, Limit(1)))
PrintOnce ==
    Constraint("You must call 'print' exactly once.", "call", "print",
               ConstraintLimit(Limit(1), Limit(1)))
NoImport == DisallowedNode("Import", "You cannot import any other code.")
NoExec == DisallowedCall("exec")
Unlimited ==
    Constraint("Names are counted.", "node", "Name", ConstraintLimit(Unset, Unset))

ScanConstraints == {ForRequired, OneCallAtMost, PrintOnce, NoImport, NoExec, Unlimited}
ConstraintLists == SeqsUpTo(ScanConstraints, MaxConstraints)

(***************************************************************************)
(* Texts are sequences of tokens (characters or whole words).              *)
(***************************************************************************)
IsSpace(ch) == ch \in {" ", "\n"}

RECURSIVE LStrip(_)
LStrip(t) == IF t # <<>> /\ IsSpace(Head(t)) THEN LStrip(Tail(t)) ELSE t

RECURSIVE RStrip(_)
RStrip(t) ==
    IF t # <<>> /\ IsSpace(t[Len(t)]) THEN RStrip(SubSeq(t, 1, Len(t) - 1)) ELSE t

\* str.strip()
Strip(t) == LStrip(RStrip(t))

\* "\n".join(lines)
RECURSIVE JoinLines(_)
JoinLines(lines) ==
    IF lines = <<>> THEN <<>>
    ELSE IF Len(lines) = 1 THEN lines[1]
    ELSE lines[1] \o <<"\n">> \o JoinLines(Tail(lines))

\* str.splitlines(): a trailing line break opens no further line.
RECURSIVE SplitLines(_)
SplitLines(t) ==
    IF t = <<>> THEN <<>>
    ELSE IF \E i \in 1..Len(t) : t[i] = "\n"
         THEN LET i == CHOOSE k \in 1..Len(t) :
                           t[k] = "\n" /\ \A j \in 1..(k - 1) : t[j] # "\n"
              IN <<SubSeq(t, 1, i - 1)>> \o SplitLines(SubSeq(t, i + 1, Len(t)))
         ELSE <<t>>

(***************************************************************************)
(* sandbox.py                                                              *)
(***************************************************************************)
BEGIN_SENTINEL == "--- BEGIN JSON RESPONSE ---"
END_SENTINEL == "--- END JSON RESPONSE ---"
\* The text of an envelope with every field, and of one without `tokens`.
ENVELOPE_JSON == "{stdout, tokens, attempt_time_seconds}"
PARTIAL_JSON == "{stdout, attempt_time_seconds}"
NOISE == "x"

OutTokens == {BEGIN_SENTINEL, END_SENTINEL, ENVELOPE_JSON, PARTIAL_JSON, NOISE}

\* Position of the first occurrence of token x in t, 0 when there is none.
FirstIndex(t, x) ==
    IF \E i \in 1..Len(t) : t[i] = x
    THEN CHOOSE i \in 1..Len(t) : t[i] = x /\ \A j \in 1..(i - 1) : t[j] # x
    ELSE 0

\* input.split(sep, 1)
SplitOnce(t, sep) ==
    LET i == FirstIndex(t, sep)
    IN IF i = 0 THEN <<t>> ELSE <<SubSeq(t, 1, i - 1), SubSeq(t, i + 1, Len(t))>>

\* A variant that takes the text up to the last occurrence of right.
substring_between_two_substrings_LastRight(input, left, right) ==
    LET parts == SplitOnce(input, left)
        ends == {i \in 1..Len(parts[2]) : parts[2][i] = right}
        last == CHOOSE i \in ends : \A j \in ends : j <= i
    IN IF Len(parts) < 2 THEN [raised |-> TRUE, text |-> <<>>]
       ELSE IF ends = {} THEN [raised |-> FALSE, text |-> parts[2]]
       ELSE [raised |-> FALSE, text |-> SubSeq(parts[2], 1, last - 1)]

\* _substring_between_two_substrings: input.split(left, 1)[1].split(right, 1)[0];
\* the subscript [1] raises IndexError when left does not occur.
substring_between_two_substrings(input, left, right) ==
    LET parts == SplitOnce(input, left)
    IN IF Len(parts) < 2 THEN [raised |-> TRUE, text |-> <<>>]
       ELSE [raised |-> FALSE, text |-> SplitOnce(parts[2], right)[1]]

\* The stdout lines the envelope text stands for.
ENVELOPE_STDOUT == <<<<" ", "a">>, <<>>>>

\* json.loads on the extracted text: a document, or JSONDecodeError.
JsonLoads(text) ==
    IF text = <<ENVELOPE_JSON>>
    THEN [ok |-> TRUE,
          doc |-> [fields |-> {"stdout", "tokens", "attempt_time_seconds"}]]
    ELSE IF text = <<PARTIAL_JSON>>
    THEN [ok |-> TRUE, doc |-> [fields |-> {"stdout", "attempt_time_seconds"}]]
    ELSE [ok |-> FALSE, doc |-> [fields |-> {}]]

\* _ExecutionStreamResults.parse_obj: ValidationError when a field is missing.
ParseObj(doc) ==
    IF {"stdout", "tokens", "attempt_time_seconds"} \subseteq doc.fields
    THEN [ok |-> TRUE, stdout |-> ENVELOPE_STDOUT, tokens |-> {},
          attempt_time_seconds |-> 1]
    ELSE [ok |-> FALSE, stdout |-> <<>>, tokens |-> {}, attempt_time_seconds |-> 0]

DEFAULT_ERROR == <<"Could not get error information from Pyodide.">>
\* A variant that returns the whole diagnostic.
process_error_output_FullTrace(error) ==
    IF ~error.present \/ error.value = <<>> THEN DEFAULT_ERROR ELSE error.value

\* _process_error_output: the last line of the diagnostic, or the default.
process_error_output(error) ==
    IF ~error.present THEN DEFAULT_ERROR
    ELSE LET lines == SplitLines(error.value)
         IN IF Len(lines) = 0 THEN DEFAULT_ERROR ELSE lines[Len(lines)]

ExecutionResult(success, output, tokens, attempt_time_seconds) ==
    [success |-> success, output |-> output, tokens |-> tokens,
     attempt_time_seconds |-> attempt_time_seconds]

TIMEOUT_MESSAGE == <<"The attempt took too long to execute.">>
NO_STDOUT_MESSAGE == <<"Standard output could not be accessed.">>
INVALID_RESULT_MESSAGE == "The sandbox failed to return a valid result ("

\* What the engine invocation can produce: a status with the captured streams.
CodeExecutionResult(status, stdout, stderr) ==
    [none |-> FALSE, status |-> status, stdout |-> stdout, stderr |-> stderr]
\* The None that _sandbox_execute_with_timeout returns on a timeout.
NoSandboxResult == [none |-> TRUE, status |-> "", stdout |-> NoText, stderr |-> NoText]

\* The diagnostics of the engine: none, empty, a trace with and without a final
\* line break, a single line.
StderrTexts ==
    {NoText, Some(<<>>), Some(<<"Traceback", "\n", "NameError">>),
     Some(<<"Traceback", "\n", "NameError", "\n">>), Some(<<"NameError">>)}
\* The captured stdout is absent, any short text, or one of a few longer texts
\* with a stray END sentinel ahead of the envelope or more sentinels after it.
EngineResults ==
    {CodeExecutionResult("error", NoText, e) : e \in StderrTexts}
    \cup {CodeExecutionResult("success", o, NoText) :
            o \in {NoText} \cup {Some(t) : t \in SeqsUpTo(OutTokens, MaxOut)}}
    \cup {CodeExecutionResult("success", Some(t), NoText) :
            t \in {<<END_SENTINEL, BEGIN_SENTINEL, ENVELOPE_JSON, END_SENTINEL>>,
                   <<BEGIN_SENTINEL, ENVELOPE_JSON, END_SENTINEL, BEGIN_SENTINEL,
                     NOISE, END_SENTINEL>>,
                   <<NOISE, BEGIN_SENTINEL, PARTIAL_JSON, END_SENTINEL,
                     END_SENTINEL>>,
                   <<BEGIN_SENTINEL, NOISE, END_SENTINEL, BEGIN_SENTINEL,
                     ENVELOPE_JSON, END_SENTINEL>>}}

\* A variant of asyncio.wait that reports the task complete whatever its state.
wait_complete_AnyTask(t) == t \in {"running", "done"}

\* asyncio.wait puts the task in `complete` when it is done at the return.
wait_complete(t) == t = "done"

\* What an invocation that was cancelled can still produce afterwards.
LateResults ==
    {CodeExecutionResult("success",
                         Some(<<BEGIN_SENTINEL, ENVELOPE_JSON, END_SENTINEL>>), NoText),
     CodeExecutionResult("error", NoText, Some(<<"Traceback", "\n", "NameError">>))}

\* The value of `result` before execute_attempt has returned.
NoResult == ExecutionResult(FALSE, <<>>, NoTokens, NoTime)

\* execute_attempt, the try block and the final return: the envelope between the
\* sentinels is decoded; only JSONDecodeError and ValidationError are handled.
Decode(stdout) ==
    LET between == substring_between_two_substrings(stdout, BEGIN_SENTINEL, END_SENTINEL)
        loaded == JsonLoads(between.text)
        parsed == ParseObj(loaded.doc)
    IN IF between.raised THEN [raised |-> "IndexError", result |-> NoResult]
       ELSE IF ~loaded.ok
       THEN [raised |-> "none",
             result |-> ExecutionResult(FALSE,
                            <<INVALID_RESULT_MESSAGE, "jsonde.msg", ")">>, NoTokens, Some(0))]
       ELSE IF ~parsed.ok
       THEN [raised |-> "none",
             result |-> ExecutionResult(FALSE,
                            <<INVALID_RESULT_MESSAGE, "ve.errors", ")">>, NoTokens, Some(0))]
       ELSE [raised |-> "none",
             result |-> ExecutionResult(TRUE, JoinLines(parsed.stdout),
                            Some(parsed.tokens), Some(parsed.attempt_time_seconds))]

\* execute_attempt from the return of asyncio.run on.
ClassifySandboxResult(sr) ==
    IF sr.none
    THEN [raised |-> "none",
          result |-> ExecutionResult(FALSE, TIMEOUT_MESSAGE, NoTokens, NoTime)]
    ELSE IF sr.status # "success"
    THEN [raised |-> "none",
          result |-> ExecutionResult(FALSE, process_error_output(sr.stderr), NoTokens, NoTime)]
    ELSE IF ~sr.stdout.present
    THEN [raised |-> "none",
          result |-> ExecutionResult(FALSE, NO_STDOUT_MESSAGE, NoTokens, NoTime)]
    ELSE Decode(sr.stdout.value)

SALT_SYSTEM == 0
SALT_EXERCISE == 1
SALT_ATTEMPT == [present |-> FALSE, value |-> 0]

\* An identifier is the sequence of its parts; a reserved one starts with the prefix.
MANGLE_PREFIX == "_RZ_MANGLE__"
Plain(x) == <<x>>
Reserved(x) == <<MANGLE_PREFIX, x>>
StartsWith(name, prefix) == name # <<>> /\ Head(name) = prefix

\* An identifier occurrence: the syntactic position it is in, and its spelling.
\* Only an occurrence in position "Name" is an ast.Name node.
Ident(pos, id) == [pos |-> pos, id |-> id]

\* The identifier occurrences of a statement, in source order.
StmtIdents(s) ==
    CASE s = "import os" -> <<Ident("alias", Plain("os"))>>
      [] s = "from os import path" ->
            <<Ident("module", Plain("os")), Ident("alias", Plain("path"))>>
      [] s = "exec(s)" -> <<Ident("Name", Plain("exec")), Ident("Name", Plain("s"))>>
      [] s = "print(s)" -> <<Ident("Name", Plain("print")), Ident("Name", Plain("s"))>>
      [] s = "s.upper()" -> <<Ident("Name", Plain("s")), Ident("attr", Plain("upper"))>>
      [] s = "for x in s: pass" -> <<Ident("Name", Plain("x")), Ident("Name", Plain("s"))>>
      [] s = "x = 1" -> <<Ident("Name", Plain("x"))>>
      [] s = "_RZ_MANGLE__x = 1" -> <<Ident("Name", Reserved("x"))>>
      [] s = "print(_RZ_MANGLE__x)" ->
            <<Ident("Name", Plain("print")), Ident("Name", Reserved("x"))>>
      [] s = "def _RZ_MANGLE__f(_RZ_MANGLE__p): pass" ->
            <<Ident("def", Reserved("f")), Ident("arg", Reserved("p"))>>
      [] s = "_RZ_MANGLE__f(s._RZ_MANGLE__a)" ->
            <<Ident("Name", Reserved("f")), Ident("Name", Plain("s")),
              Ident("attr", Reserved("a"))>>
      [] s = "_RZ_MANGLE__out = hijack()" ->
            <<Ident("Name", Reserved("out")), Ident("Name", Plain("hijack"))>>
      [] s = "start(_RZ_MANGLE__out)" ->
            <<Ident("Name", Plain("start")), Ident("Name", Reserved("out"))>>
      [] s = "stop(_RZ_MANGLE__out)" ->
            <<Ident("Name", Plain("stop")), Ident("Name", Reserved("out"))>>
      [] s = "emit(_RZ_MANGLE__out)" ->
            <<Ident("Name", Plain("emit")), Ident("Name", Reserved("out"))>>
      [] OTHER -> <<>>

\* A line of text: the statement it spells, the spelling of its identifiers, and
\* whether its layout is as written ("source") or as ast.unparse writes it.
Line(stmt, idents, layout) == [stmt |-> stmt, idents |-> idents, layout |-> layout]
\* The text of a source written as the statements stmts.
SourceText(stmts) ==
    [i \in 1..Len(stmts) |-> Line(stmts[i], StmtIdents(stmts[i]), "source")]
BlankLine == Line("", <<>>, "canonical")

\* ast.parse on a text: SyntaxError at the first line that does not parse.
FirstBadLine(text) ==
    IF \E i \in 1..Len(text) : text[i].stmt = BadStmt
    THEN CHOOSE i \in 1..Len(text) :
            text[i].stmt = BadStmt /\ \A j \in 1..(i - 1) : text[j].stmt # BadStmt
    ELSE 0
ParseText(text) ==
    [ok |-> FirstBadLine(text) = 0, lineno |-> FirstBadLine(text), body |-> text]

\* ast.unparse: the statements with their identifiers, in canonical layout.
Unparse(body) ==
    [i \in 1..Len(body) |-> Line(body[i].stmt, body[i].idents, "canonical")]

\* The values secrets.token_hex(8) returns.
Tokens == {"a1", "b2"}

\* The memo of functools.cache on _mangle_identifier_if_possible: its entries
\* [name, salt, value] for the arguments (name, salt).
CacheHits(cache, name, salt) == {e \in cache : e.name = name /\ e.salt = salt}

\* A variant whose mangled name keeps the reserved prefix in front.
MangledName_KeepsPrefix(name, salt, tok) ==
    IF StartsWith(name, MANGLE_PREFIX)
    THEN <<MANGLE_PREFIX, "mangled_" \o ToString(salt) \o "_" \o tok \o "__">>
             \o Tail(name)
    ELSE name

\* A variant whose mangled name leaves the salt out.
MangledName_NoSalt(name, salt, tok) ==
    IF StartsWith(name, MANGLE_PREFIX)
    THEN <<"_rozelle_mangled_" \o tok \o "__">> \o Tail(name)
    ELSE name

\* The body of _mangle_identifier_if_possible; tok is what token_hex returns.
MangledName(name, salt, tok) ==
    IF StartsWith(name, MANGLE_PREFIX)
    THEN <<"_rozelle_mangled_" \o ToString(salt) \o "_" \o tok \o "__">> \o Tail(name)
    ELSE name

\* A variant without the memo: every call computes the name anew.
mangle_identifier_if_possible_NoMemo(name, salt, cache, toks) ==
    LET value == MangledName(name, salt, Head(toks))
    IN [value |-> value,
        cache |-> (cache \ CacheHits(cache, name, salt))
                      \cup {[name |-> name, salt |-> salt, value |-> value]},
        toks |-> IF StartsWith(name, MANGLE_PREFIX) THEN Tail(toks) ELSE toks]

\* _mangle_identifier_if_possible under @cache: a cached pair returns the cached
\* value; otherwise the body runs, drawing a token only for a reserved name.
mangle_identifier_if_possible(name, salt, cache, toks) ==
    LET hits == CacheHits(cache, name, salt)
    IN IF hits # {}
       THEN [value |-> (CHOOSE e \in hits : TRUE).value, cache |-> cache, toks |-> toks]
       ELSE LET value == MangledName(name, salt, Head(toks))
            IN [value |-> value,
                cache |-> cache \cup {[name |-> name, salt |-> salt, value |-> value]},
                toks |-> IF StartsWith(name, MANGLE_PREFIX) THEN Tail(toks) ELSE toks]

\* _NameMangler.visit_Name is called on the ast.Name nodes only.
IsVisitedName(ident) == ident.pos = "Name"

\* _NameMangler(salt).visit over the identifiers of one statement, from i on.
RECURSIVE MangleIdents(_, _, _, _, _)
MangleIdents(idents, i, salt, cache, toks) ==
    IF i > Len(idents) THEN [idents |-> idents, cache |-> cache, toks |-> toks]
    ELSE IF ~IsVisitedName(idents[i])
    THEN MangleIdents(idents, i + 1, salt, cache, toks)
    ELSE LET m == mangle_identifier_if_possible(idents[i].id, salt, cache, toks)
         IN MangleIdents([idents EXCEPT ![i] = Ident(idents[i].pos, m.value)],
                         i + 1, salt, m.cache, m.toks)

\* _NameMangler(salt).visit over the statements of a module, from i on.
RECURSIVE NameMangler_visit(_, _, _, _, _)
NameMangler_visit(body, i, salt, cache, toks) ==
    IF i > Len(body) THEN [body |-> body, cache |-> cache, toks |-> toks]
    ELSE LET m == MangleIdents(body[i].idents, 1, salt, cache, toks)
         IN NameMangler_visit(
                [body EXCEPT ![i] = Line(body[i].stmt, m.idents, body[i].layout)],
                i + 1, salt, m.cache, m.toks)

\* A variant that mangles whatever the salt, the attempt included.
prepare_python_source_AlwaysMangles(text, mangle_salt, cache, toks) ==
    LET parsed == ParseText(text)
        mangled == NameMangler_visit(parsed.body, 1, mangle_salt.value, cache, toks)
    IN IF ~parsed.ok
       THEN [ok |-> FALSE, lineno |-> parsed.lineno, text |-> <<>>,
             cache |-> cache, toks |-> toks]
       ELSE [ok |-> TRUE, lineno |-> 0, text |-> Unparse(mangled.body),
             cache |-> mangled.cache, toks |-> mangled.toks]

\* _prepare_python_source: parse (SyntaxError at the first bad line), mangle the
\* names when a salt is given, unparse.
prepare_python_source(text, mangle_salt, cache, toks) ==
    LET parsed == ParseText(text)
        mangled == NameMangler_visit(parsed.body, 1, mangle_salt.value, cache, toks)
    IN IF ~parsed.ok
       THEN [ok |-> FALSE, lineno |-> parsed.lineno, text |-> <<>>,
             cache |-> cache, toks |-> toks]
       ELSE IF mangle_salt.present
       THEN [ok |-> TRUE, lineno |-> 0, text |-> Unparse(mangled.body),
             cache |-> mangled.cache, toks |-> mangled.toks]
       ELSE [ok |-> TRUE, lineno |-> 0, text |-> Unparse(parsed.body),
             cache |-> cache, toks |-> toks]

\* The trusted snippets read from the sandbox_snippets package.
SNIPPET_01 == SourceText(<<"_RZ_MANGLE__out = hijack()">>)
SNIPPET_03 == SourceText(<<"start(_RZ_MANGLE__out)">>)
SNIPPET_05 == SourceText(<<"stop(_RZ_MANGLE__out)">>)
SNIPPET_07 == SourceText(<<"emit(_RZ_MANGLE__out)">>)

SnippetAssemblyContext(name, text, mangle_salt) ==
    [name |-> name, text |-> text, mangle_salt |-> mangle_salt]

\* A variant of the assembly with the attempt ahead of the exercise prerun.
Assembly_AttemptFirst(attempt_code, exercise_prerun, exercise_postrun) ==
    <<SnippetAssemblyContext("system, before exercise prerun", SNIPPET_01,
                             Some(SALT_SYSTEM)),
      SnippetAssemblyContext("attempt", attempt_code, SALT_ATTEMPT),
      SnippetAssemblyContext("system, after exercise prerun", SNIPPET_03,
                             Some(SALT_SYSTEM)),
      SnippetAssemblyContext("exercise prerun", exercise_prerun, Some(SALT_EXERCISE)),
      SnippetAssemblyContext("system, before exercise postrun", SNIPPET_05,
                             Some(SALT_SYSTEM)),
      SnippetAssemblyContext("exercise postrun", exercise_postrun, Some(SALT_EXERCISE)),
      SnippetAssemblyContext("system, after exercise postrun", SNIPPET_07,
                             Some(SALT_SYSTEM))>>

\* The assembly tuple of execute_attempt.
Assembly(attempt_code, exercise_prerun, exercise_postrun) ==
    <<SnippetAssemblyContext("system, before exercise prerun", SNIPPET_01,
                             Some(SALT_SYSTEM)),
      SnippetAssemblyContext("exercise prerun", exercise_prerun, Some(SALT_EXERCISE)),
      SnippetAssemblyContext("system, after exercise prerun", SNIPPET_03,
                             Some(SALT_SYSTEM)),
      SnippetAssemblyContext("attempt", attempt_code, SALT_ATTEMPT),
      SnippetAssemblyContext("system, before exercise postrun", SNIPPET_05,
                             Some(SALT_SYSTEM)),
      SnippetAssemblyContext("exercise postrun", exercise_postrun, Some(SALT_EXERCISE)),
      SnippetAssemblyContext("system, after exercise postrun", SNIPPET_07,
                             Some(SALT_SYSTEM))>>

\* The values a result of the assembly loop is made of.
Assembling(program, cache, toks) ==
    [ok |-> TRUE, program |-> program, name |-> "", lineno |-> 0,
     cache |-> cache, toks |-> toks]

\* A variant of the iteration without the test for an empty text.
AssembleOne_NoSkip(a, program, cache, toks) ==
    LET prepared == prepare_python_source(a.text, a.mangle_salt, cache, toks)
    IN IF ~prepared.ok
       THEN [ok |-> FALSE, program |-> program, name |-> a.name,
             lineno |-> prepared.lineno, cache |-> prepared.cache,
             toks |-> prepared.toks]
       ELSE Assembling(program \o prepared.text \o <<BlankLine>>,
                       prepared.cache, prepared.toks)

\* One iteration of the for loop of execute_attempt, on fragment a: an empty
\* text is skipped, a SyntaxError ends the call, else the text is written.
AssembleOne(a, program, cache, toks) ==
    LET prepared == prepare_python_source(a.text, a.mangle_salt, cache, toks)
    IN IF Len(a.text) = 0 THEN Assembling(program, cache, toks)
       ELSE IF ~prepared.ok
       THEN [ok |-> FALSE, program |-> program, name |-> a.name,
             lineno |-> prepared.lineno, cache |-> prepared.cache,
             toks |-> prepared.toks]
       ELSE Assembling(program \o prepared.text \o <<BlankLine>>,
                       prepared.cache, prepared.toks)

\* The for loop of execute_attempt over the assembly, from fragment i on.
RECURSIVE AssembleFrom(_, _, _, _, _)
AssembleFrom(frags, i, program, cache, toks) ==
    IF i > Len(frags) THEN Assembling(program, cache, toks)
    ELSE LET one == AssembleOne(frags[i], program, cache, toks)
         IN IF ~one.ok THEN one
            ELSE AssembleFrom(frags, i + 1, one.program, one.cache, one.toks)

\* An upper bound of the tokens one call draws: its reserved ast.Name occurrences.
RECURSIVE ReservedNames(_)
ReservedNames(text) ==
    IF text = <<>> THEN 0
    ELSE Cardinality({i \in 1..Len(Head(text).idents) :
                         /\ Head(text).idents[i].pos = "Name"
                         /\ StartsWith(Head(text).idents[i].id, MANGLE_PREFIX)})
         + ReservedNames(Tail(text))
RECURSIVE DrawsOf(_)
DrawsOf(frags) ==
    IF frags = <<>> THEN 0 ELSE ReservedNames(Head(frags).text) + DrawsOf(Tail(frags))
TokenDraws(n) == [1..n -> Tokens]

SyntaxErrorMessage(name, lineno) ==
    <<"SyntaxError at <", name, "> on line ", ToString(lineno), ":\n  ", "se.msg">>

(***************************************************************************)
(* exercise.py                                                             *)
(***************************************************************************)
CRITICAL_CONSTRAINTS ==
    <<Constraint("You cannot import any other code.", "ast_regex", "Import(?:From)?",
                 ConstraintLimit(Limit(0), Limit(0))),
      DisallowedCall("exec"), DisallowedCall("eval"), DisallowedCall("open")>>

NoOutcome == [variant |-> "none"]
FailAST == [variant |-> "FailAST", error |-> "SyntaxError"]
FailConstraints(critical, failed_constraint_descriptions) ==
    [variant |-> "FailConstraints", critical |-> critical,
     failed_constraint_descriptions |-> failed_constraint_descriptions]
FailProgramError(error) == [variant |-> "FailProgramError", error |-> error]
FailOutput(expected, got) == [variant |-> "FailOutput", expected |-> expected, got |-> got]
Pass(attempt_time_seconds) ==
    [variant |-> "Pass", attempt_time_seconds |-> attempt_time_seconds]

Descriptions(failed) == {c.description : c \in failed}

\* What the postrun fragment printed; the envelope of sandbox.py carries one stream.
POSTRUN_STDOUT == <<<<"b">>>>

\* The ExecutionOutputs that Exercise.run reads from the result of execute_attempt.
ExecutionOutputs(res) ==
    [attempt |-> IF res.success THEN <<res.output>> ELSE <<>>,
     postrun |-> IF res.success THEN POSTRUN_STDOUT ELSE <<>>,
     error |-> IF res.success THEN <<>> ELSE <<res.output>>]

\* A variant that returns the selected stream without stripping it.
get_output_stream_NoStrip(selection, outputs) ==
    CASE selection = "attempt" -> Some(JoinLines(outputs.attempt))
      [] selection = "postrun" -> Some(JoinLines(outputs.postrun))
      [] OTHER -> NoText

\* OutputSelection.get_output_stream
get_output_stream(selection, outputs) ==
    CASE selection = "attempt" -> Some(Strip(JoinLines(outputs.attempt)))
      [] selection = "postrun" -> Some(Strip(JoinLines(outputs.postrun)))
      [] OTHER -> NoText

OutputSelection == {"attempt", "postrun", "no-check"}

ExerciseDefinedCode ==
    {[prerun |-> <<>>, postrun |-> <<>>],
     [prerun |-> <<"x = 1">>, postrun |-> <<"print(s)">>],
     [prerun |-> <<BadStmt>>, postrun |-> <<>>],
     [prerun |-> <<>>, postrun |-> <<"print(s)", BadStmt>>]}

ExerciseConstraintLists == {<<>>, <<ForRequired>>, <<PrintOnce, OneCallAtMost>>}

Exercises ==
    [constraints : ExerciseConstraintLists,
     expected_output : {<<"a", " ">>, <<"b">>},
     check_expected_output_from : OutputSelection,
     code : ExerciseDefinedCode]

IdleExercise ==
    [constraints |-> <<>>, expected_output |-> <<>>,
     check_expected_output_from |-> "no-check",
     code |-> [prerun |-> <<>>, postrun |-> <<>>]]

\* The values the variables of the other specifications rest at.
IdleScan ==
    /\ tree = <<>> /\ constraints = <<>> /\ constraint_counts = <<>>
    /\ scan_pos = 0 /\ scan_pc = "idle" /\ scan_result = {}
IdleRun ==
    /\ code = <<>> /\ exercise = IdleExercise /\ pc = "idle" /\ python_ast = <<>>
    /\ failed_criticals = {} /\ stages = <<>> /\ outcome = NoOutcome /\ raised = "none"
IdleExec ==
    /\ mangle_cache = {} /\ assembled = <<>> /\ invocations = 0 /\ task = "none"
    /\ task_result = NoSandboxResult /\ timer = "unset"
    /\ sandbox_result = NoSandboxResult /\ decoded = NoText /\ result = NoResult
NoCall == [attempt_code |-> <<>>, exercise_prerun |-> <<>>, exercise_postrun |-> <<>>]
IdleAssemble == call = NoCall /\ asm_pos = 0 /\ asm_pc = "idle" /\ calls = 0
IdlePrepare ==
    /\ prep_text = <<>> /\ prep_salt = SALT_ATTEMPT /\ prep_out = <<>>
    /\ prep_pc = "idle"
IdleWatch ==
    /\ w_pc = "idle" /\ w_events = <<>> /\ w_next = 0 /\ w_thread = "not_started"
    /\ w_running = {} /\ w_triggers = <<>> /\ w_fatal = "none"
IdleOthers == IdleAssemble /\ IdlePrepare /\ IdleWatch

(***************************************************************************)
(* SpecScan: check_constraints(python_ast, constraints), node by node.     *)
(***************************************************************************)
InitScan ==
    /\ tree \in {AstParse(src).tree : src \in GoodSources}
    /\ constraints \in ConstraintLists
    /\ constraint_counts = ScannerInit(constraints)
    /\ scan_pos = 1
    /\ scan_pc = "visiting"
    /\ scan_result = {}
    /\ IdleRun /\ IdleExec /\ IdleOthers

\* One call of ConstraintScanner.generic_visit, on the next node of the walk.
ScanVisit ==
    /\ scan_pc = "visiting"
    /\ scan_pos <= Len(tree)
    /\ LET v == generic_visit(tree[scan_pos], constraints, constraint_counts)
       IN /\ constraint_counts' = v.counts
          /\ scan_pc' = IF v.raised THEN "raised" ELSE "visiting"
          /\ scan_pos' = IF v.raised THEN scan_pos ELSE scan_pos + 1
    /\ UNCHANGED <<tree, constraints, scan_result, run_vars, exec_vars, other_vars>>

\* The walk is over: check_constraints returns the unsatisfied constraints.
ScanReturn ==
    /\ scan_pc = "visiting"
    /\ scan_pos > Len(tree)
    /\ scan_result' = failed_set(constraints, constraint_counts)
    /\ scan_pc' = "returned"
    /\ UNCHANGED <<tree, constraints, constraint_counts, scan_pos, run_vars, exec_vars,
                   other_vars>>

NextScan == ScanVisit \/ ScanReturn

SpecScan == InitScan /\ [][NextScan]_vars

(***************************************************************************)
(* Spec: Exercise.run(python_file), with execute_attempt inlined.          *)
(***************************************************************************)
Init ==
    /\ code \in Sources
    /\ exercise \in Exercises
    /\ pc = "parse"
    /\ python_ast = <<>>
    /\ failed_criticals = {}
    /\ stages = <<>>
    /\ outcome = NoOutcome
    /\ raised = "none"
    /\ IdleScan /\ IdleExec /\ IdleOthers

\* CHECK: the code must be valid Python.
Parse ==
    /\ pc = "parse"
    /\ stages' = Append(stages, "parse")
    /\ LET parsed == AstParse(code)
       IN IF parsed.ok
          THEN /\ python_ast' = parsed.tree
               /\ pc' = "critical"
               /\ UNCHANGED outcome
          ELSE /\ outcome' = FailAST
               /\ pc' = "done"
               /\ UNCHANGED python_ast
    /\ UNCHANGED <<code, exercise, failed_criticals, raised, scan_vars, exec_vars,
                   other_vars>>

\* A variant of the critical check that reports the violation and scans on.
ScanCritical_NoShortCircuit ==
    /\ pc = "critical"
    /\ stages' = Append(stages, "critical")
    /\ LET scan == check_constraints(python_ast, CRITICAL_CONSTRAINTS)
       IN /\ failed_criticals' = scan.failed
          /\ IF scan.raised
             THEN /\ raised' = "AttributeError"
                  /\ pc' = "raised"
                  /\ UNCHANGED outcome
             ELSE /\ pc' = "exercise"
                  /\ outcome' = IF Cardinality(scan.failed) # 0
                                THEN FailConstraints(TRUE, Descriptions(scan.failed))
                                ELSE outcome
                  /\ UNCHANGED raised
    /\ UNCHANGED <<code, exercise, python_ast, scan_vars, exec_vars, other_vars>>

\* CHECK: the code must follow the critical constraints.
ScanCritical ==
    /\ pc = "critical"
    /\ stages' = Append(stages, "critical")
    /\ LET scan == check_constraints(python_ast, CRITICAL_CONSTRAINTS)
       IN /\ failed_criticals' = scan.failed
          /\ IF scan.raised
             THEN /\ raised' = "AttributeError"
                  /\ pc' = "raised"
                  /\ UNCHANGED outcome
             ELSE IF Cardinality(scan.failed) # 0
             THEN /\ outcome' = FailConstraints(TRUE, Descriptions(scan.failed))
                  /\ pc' = "done"
                  /\ UNCHANGED raised
             ELSE /\ pc' = "exercise"
                  /\ UNCHANGED <<outcome, raised, other_vars>>
    /\ UNCHANGED <<code, exercise, python_ast, scan_vars, exec_vars, other_vars>>

\* CHECK: the code must follow the constraints of the exercise.
ScanExercise ==
    /\ pc = "exercise"
    /\ stages' = Append(stages, "exercise")
    /\ LET scan == check_constraints(python_ast, exercise.constraints)
       IN IF scan.raised
          THEN /\ raised' = "AttributeError"
               /\ pc' = "raised"
               /\ UNCHANGED outcome
          ELSE IF Cardinality(scan.failed) # 0
          THEN /\ outcome' = FailConstraints(FALSE, Descriptions(scan.failed))
               /\ pc' = "done"
               /\ UNCHANGED raised
          ELSE /\ pc' = "assemble"
               /\ UNCHANGED <<outcome, raised, other_vars>>
    /\ UNCHANGED <<code, exercise, python_ast, failed_criticals, scan_vars, exec_vars,
                   other_vars>>

\* execute_attempt is called: the fragments are prepared and written in order.
Assemble ==
    /\ pc = "assemble"
    /\ stages' = Append(stages, "execute")
    /\ LET frags == Assembly(SourceText(code), SourceText(exercise.code.prerun),
                             SourceText(exercise.code.postrun))
       IN \E toks \in TokenDraws(DrawsOf(frags)) :
            LET built == AssembleFrom(frags, 1, <<>>, mangle_cache, toks)
            IN /\ mangle_cache' = built.cache
               /\ assembled' = built.program
               /\ IF built.ok
                  THEN /\ pc' = "invoke"
                       /\ UNCHANGED result
                  ELSE /\ result' = ExecutionResult(FALSE,
                                        SyntaxErrorMessage(built.name, built.lineno),
                                        NoTokens, NoTime)
                       /\ pc' = "executed"
    /\ UNCHANGED <<code, exercise, python_ast, failed_criticals, outcome, raised,
                   invocations, task, task_result, timer, sandbox_result, decoded,
                   scan_vars, other_vars>>

\* asyncio.run(_sandbox_execute_with_timeout(...)): the task is created and
\* asyncio.wait starts with the timeout.
Invoke ==
    /\ pc = "invoke"
    /\ task' = "running"
    /\ invocations' = invocations + 1
    /\ timer' = "pending"
    /\ pc' = "waiting"
    /\ UNCHANGED <<run_vars_but_pc, mangle_cache, assembled, task_result,
                   sandbox_result, result, decoded, scan_vars, other_vars>>

\* The engine invocation completes, with whatever status and output.
EngineCompletes ==
    /\ pc = "waiting"
    /\ task = "running"
    /\ \E r \in EngineResults : task_result' = r
    /\ task' = "done"
    /\ UNCHANGED <<run_vars, mangle_cache, assembled, invocations, timer,
                   sandbox_result, result, decoded, scan_vars, other_vars>>

\* asyncio.wait returns with the task complete; its result is awaited.
WaitComplete ==
    /\ pc = "waiting"
    /\ wait_complete(task)
    /\ sandbox_result' = task_result
    /\ timer' = "dropped"
    /\ pc' = "classify"
    /\ UNCHANGED <<run_vars_but_pc, mangle_cache, assembled, invocations, task,
                   task_result, result, decoded, scan_vars, other_vars>>

\* A variant of the timeout branch that awaits the task instead of cancelling it.
WaitTimeout_AwaitsTask ==
    /\ pc = "waiting"
    /\ ~wait_complete(task)
    /\ timer' = "fired"
    /\ task' = "done"
    /\ \E r \in EngineResults : task_result' = r /\ sandbox_result' = r
    /\ pc' = "classify"
    /\ UNCHANGED <<run_vars_but_pc, mangle_cache, assembled, invocations, result,
                   decoded, scan_vars, other_vars>>

\* The timeout elapses with the task incomplete: it is cancelled, None returned.
WaitTimeout ==
    /\ pc = "waiting"
    /\ ~wait_complete(task)
    /\ timer' = "fired"
    /\ task' = "cancelled"
    /\ sandbox_result' = NoSandboxResult
    /\ pc' = "classify"
    /\ UNCHANGED <<run_vars_but_pc, mangle_cache, assembled, invocations, task_result,
                   result, decoded, scan_vars, other_vars>>

\* The engine produces a result after the task was cancelled.
EngineCompletesLate ==
    /\ task = "cancelled"
    /\ \E r \in LateResults : task_result' = r
    /\ task' = "finished_late"
    /\ UNCHANGED <<run_vars, mangle_cache, assembled, invocations, timer,
                   sandbox_result, result, decoded, scan_vars, other_vars>>

\* execute_attempt classifies what the sandbox returned, and returns or raises.
Classify ==
    /\ pc = "classify"
    /\ LET c == ClassifySandboxResult(sandbox_result)
       IN IF c.raised = "none"
          THEN /\ result' = c.result
               /\ pc' = "executed"
               /\ UNCHANGED raised
          ELSE /\ raised' = c.raised
               /\ pc' = "raised"
               /\ UNCHANGED result
    /\ LET sr == sandbox_result
           between == substring_between_two_substrings(sr.stdout.value, BEGIN_SENTINEL,
                                                       END_SENTINEL)
       IN decoded' = IF /\ ~sr.none /\ sr.status = "success" /\ sr.stdout.present
                        /\ ~between.raised
                     THEN Some(between.text) ELSE NoText
    /\ UNCHANGED <<code, exercise, python_ast, failed_criticals, stages, outcome,
                   mangle_cache, assembled, invocations, task, task_result, timer,
                   sandbox_result, scan_vars, other_vars>>

\* CHECK: the program must execute successfully.
CheckSuccess ==
    /\ pc = "executed"
    /\ IF ~result.success
       THEN /\ outcome' = FailProgramError(JoinLines(ExecutionOutputs(result).error))
            /\ pc' = "done"
       ELSE /\ pc' = "compare"
            /\ UNCHANGED outcome
    /\ UNCHANGED <<code, exercise, python_ast, failed_criticals, stages, raised,
                   exec_vars, scan_vars, other_vars>>

\* CHECK: the output must match the expected output of the exercise.
Compare ==
    /\ pc = "compare"
    /\ stages' = Append(stages, "compare")
    /\ LET expected == Strip(exercise.expected_output)
           got == get_output_stream(exercise.check_expected_output_from,
                                    ExecutionOutputs(result))
       IN outcome' = IF got.present /\ expected # got.value
                     THEN FailOutput(expected, got.value)
                     ELSE Pass(IF result.attempt_time_seconds.present
                               THEN result.attempt_time_seconds.value ELSE 0)
    /\ pc' = "done"
    /\ UNCHANGED <<code, exercise, python_ast, failed_criticals, raised, exec_vars,
                   scan_vars, other_vars>>

Next ==
    \/ Parse \/ ScanCritical \/ ScanExercise
    \/ Assemble \/ Invoke \/ EngineCompletes \/ WaitComplete \/ WaitTimeout
    \/ EngineCompletesLate \/ Classify \/ CheckSuccess \/ Compare

Spec == Init /\ [][Next]_vars

\* The steps of execute_attempt from the invocation on; the engine completing
\* is the environment's.
ExecuteStep == Invoke \/ WaitComplete \/ WaitTimeout \/ Classify

\* The interpreter and the event loop take every step of execute_attempt that is
\* ready, and the timer of asyncio.wait always fires.  The assembly loop runs to
\* its end: Assemble is enabled exactly when pc = "assemble" and leaves it, so
\* its weak fairness is that pc is again and again not "assemble".
FairSpec == Spec /\ WF_vars(ExecuteStep) /\ []<>(pc # "assemble")

(***************************************************************************)
(* SpecAssemble: the assembly loop of execute_attempt, one fragment per     *)
(* step, over the calls one process makes; the memo outlives each call.     *)
(***************************************************************************)
MaxCalls == 2          \* calls of execute_attempt in one process

\* Attempt sources execute_attempt is called with.
AttemptTexts ==
    {SourceText(<<>>),
     SourceText(<<"print(s)">>),
     SourceText(<<"_RZ_MANGLE__x = 1", "print(_RZ_MANGLE__x)">>)}

\* Prerun and postrun code of the exercises.
ExerciseTexts ==
    {SourceText(<<>>),
     SourceText(<<"_RZ_MANGLE__x = 1">>),
     SourceText(<<"def _RZ_MANGLE__f(_RZ_MANGLE__p): pass",
                  "_RZ_MANGLE__f(s._RZ_MANGLE__a)">>),
     SourceText(<<"x = 1", BadStmt>>)}

CallAssembly == Assembly(call.attempt_code, call.exercise_prerun, call.exercise_postrun)

InitAssemble ==
    /\ IdleScan /\ IdleRun /\ IdleExec /\ IdlePrepare /\ IdleWatch
    /\ IdleAssemble

\* execute_attempt(attempt_code, exercise_prerun, exercise_postrun) is called.
StartCall ==
    /\ asm_pc \in {"idle", "assembled", "syntax_error"}
    /\ calls < MaxCalls
    /\ \E a \in AttemptTexts, pre \in ExerciseTexts, post \in ExerciseTexts :
          call' = [attempt_code |-> a, exercise_prerun |-> pre, exercise_postrun |-> post]
    /\ calls' = calls + 1
    /\ asm_pos' = 1
    /\ asm_pc' = "assembling"
    /\ assembled' = <<>>
    /\ UNCHANGED <<mangle_cache, exec_vars_but_asm, scan_vars, run_vars, prep_vars,
                   watch_vars>>

\* One iteration of the for loop over the assembly.
PrepareFragment ==
    /\ asm_pc = "assembling"
    /\ asm_pos <= Len(CallAssembly)
    /\ LET a == CallAssembly[asm_pos]
       IN \E toks \in TokenDraws(ReservedNames(a.text)) :
            LET one == AssembleOne(a, assembled, mangle_cache, toks)
            IN /\ assembled' = one.program
               /\ mangle_cache' = one.cache
               /\ asm_pc' = IF one.ok THEN "assembling" ELSE "syntax_error"
               /\ asm_pos' = IF one.ok THEN asm_pos + 1 ELSE asm_pos
    /\ UNCHANGED <<call, calls, exec_vars_but_asm, scan_vars, run_vars, prep_vars,
                   watch_vars>>

\* The loop is over: code.getvalue() is the program given to the engine.
FinishAssembly ==
    /\ asm_pc = "assembling"
    /\ asm_pos > Len(CallAssembly)
    /\ asm_pc' = "assembled"
    /\ UNCHANGED <<call, calls, asm_pos, exec_vars, scan_vars, run_vars, prep_vars,
                   watch_vars>>

NextAssemble == StartCall \/ PrepareFragment \/ FinishAssembly

SpecAssemble == InitAssemble /\ [][NextAssemble]_vars

(***************************************************************************)
(* SpecPrepare: _prepare_python_source applied to a text, and again to the  *)
(* text it returned, in a process whose memo the calls share.              *)
(***************************************************************************)
InitPrepare ==
    /\ IdleScan /\ IdleRun /\ IdleExec /\ IdleAssemble /\ IdleWatch
    /\ IdlePrepare

\* A text and a salt are chosen for the next calls.
ChooseText ==
    /\ prep_pc \in {"idle", "returned", "returned_again", "syntax_error"}
    /\ calls < MaxCalls
    /\ \E t \in AttemptTexts \cup ExerciseTexts \cup {SNIPPET_01, SNIPPET_07},
          salt \in {Some(SALT_SYSTEM), Some(SALT_EXERCISE), SALT_ATTEMPT} :
          prep_text' = t /\ prep_salt' = salt
    /\ prep_out' = <<>>
    /\ prep_pc' = "ready"
    /\ calls' = calls + 1
    /\ UNCHANGED <<call, asm_pos, asm_pc, exec_vars, scan_vars, run_vars, watch_vars>>

\* _prepare_python_source(prep_text, prep_salt) returns or raises SyntaxError.
Prepare ==
    /\ prep_pc \in {"ready", "again"}
    /\ \E toks \in TokenDraws(ReservedNames(prep_text)) :
          LET prepared == prepare_python_source(prep_text, prep_salt, mangle_cache, toks)
          IN /\ prep_out' = prepared.text
             /\ mangle_cache' = prepared.cache
             /\ prep_pc' = IF ~prepared.ok THEN "syntax_error"
                          ELSE IF prep_pc = "again" THEN "returned_again"
                          ELSE "returned"
    /\ UNCHANGED <<prep_text, prep_salt, asm_vars, assembled, exec_vars_but_asm,
                   scan_vars, run_vars, watch_vars>>

\* The returned text is given to _prepare_python_source again, with the same salt.
PrepareAgain ==
    /\ prep_pc \in {"returned", "returned_again"}
    /\ prep_text' = prep_out
    /\ prep_out' = <<>>
    /\ prep_pc' = "again"
    /\ UNCHANGED <<prep_salt, asm_vars, exec_vars, scan_vars, run_vars, watch_vars>>

NextPrepare == ChooseText \/ Prepare \/ PrepareAgain

SpecPrepare == InitPrepare /\ [][NextPrepare]_vars

(***************************************************************************)
(* SpecWatch: watch_display_run.  The main thread builds the handler (which *)
(* runs the callback once), starts the observer and sleeps; the observer    *)
(* thread dispatches the queued events to the handler one after another.    *)
(***************************************************************************)
MaxEvents == 2         \* file-system events queued during one watch

WATCHED_PATH == "attempt.py"
OTHER_PATH == "notes.txt"

FileSystemEvent(cls, src_path) == [cls |-> cls, src_path |-> src_path]
WatchEvents ==
    {FileSystemEvent(cls, p) :
        cls \in {"FileModifiedEvent", "DirModifiedEvent", "FileDeletedEvent",
                 "DirDeletedEvent", "FileMovedEvent", "DirMovedEvent"},
        p \in {WATCHED_PATH, OTHER_PATH}}

\* event.event_type, which FileSystemEventHandler.dispatch selects the method by.
event_type(event) ==
    CASE event.cls \in {"FileModifiedEvent", "DirModifiedEvent"} -> "modified"
      [] event.cls \in {"FileDeletedEvent", "DirDeletedEvent"} -> "deleted"
      [] OTHER -> "moved"

\* A variant of on_modified without the test of the event's class.
on_modified_AnyClass(event, path) == event.src_path = path

\* The condition of on_modified, under which the callback runs.
on_modified(event, path) ==
    event.cls = "FileModifiedEvent" /\ event.src_path = path

\* The condition of on_moved, under which _file_missing(False) runs.
on_moved(event, path) ==
    event.cls = "FileModifiedEvent" /\ event.src_path = path

\* The condition of on_deleted, under which _file_missing(True) runs.
on_deleted(event, path) ==
    event.cls = "FileModifiedEvent" /\ event.src_path = path

InitWatch ==
    /\ IdleScan /\ IdleRun /\ IdleExec /\ IdleAssemble /\ IdlePrepare
    /\ w_pc = "construct" /\ w_events = <<>> /\ w_next = 1
    /\ w_thread = "not_started" /\ w_running = {} /\ w_triggers = <<>>
    /\ w_fatal = "none"

unwatched_vars == <<scan_vars, run_vars, exec_vars, asm_vars, prep_vars>>

\* _FileChangeCallbackHandler.__init__ calls the callback: the initial run.
HandlerInit ==
    /\ w_pc = "construct"
    /\ w_running' = w_running \cup {"main"}
    /\ w_pc' = "initial_run"
    /\ UNCHANGED <<w_events, w_next, w_thread, w_triggers, w_fatal, unwatched_vars>>

\* display_run returns to __init__, or an exception of the evaluation leaves
\* watch_display_run.
InitialRunEnds ==
    /\ w_pc = "initial_run"
    /\ w_running' = w_running \ {"main"}
    /\ w_pc' \in {"start", "crashed"}
    /\ UNCHANGED <<w_events, w_next, w_thread, w_triggers, w_fatal, unwatched_vars>>

\* observer.schedule(...); observer.start(); the main thread goes to sleep.
ObserverStart ==
    /\ w_pc = "start"
    /\ w_thread' = "idle"
    /\ w_pc' = "sleeping"
    /\ UNCHANGED <<w_events, w_next, w_running, w_triggers, w_fatal, unwatched_vars>>

\* The emitter of the started observer queues a file-system event.
EmitEvent ==
    /\ w_pc = "sleeping"
    /\ Len(w_events) < MaxEvents
    /\ \E event \in WatchEvents : w_events' = Append(w_events, event)
    /\ w_triggers' = Append(w_triggers, 0)
    /\ UNCHANGED <<w_pc, w_next, w_thread, w_running, w_fatal, unwatched_vars>>

\* The observer thread takes the next event and calls the handler method of
\* its type; on_modified enters the callback, the other two _file_missing.
Dispatch ==
    /\ w_pc = "sleeping"
    /\ w_thread = "idle"
    /\ w_next <= Len(w_events)
    /\ LET event == w_events[w_next]
       IN CASE event_type(event) = "modified" /\ on_modified(event, WATCHED_PATH) ->
                 /\ w_running' = w_running \cup {"observer"}
                 /\ w_triggers' = [w_triggers EXCEPT ![w_next] = @ + 1]
                 /\ w_thread' = "in_callback"
                 /\ UNCHANGED <<w_next, w_fatal>>
            [] event_type(event) = "moved" /\ on_moved(event, WATCHED_PATH) ->
                 /\ w_fatal' = "moved"
                 /\ w_thread' = "exited"
                 /\ UNCHANGED <<w_next, w_running, w_triggers>>
            [] event_type(event) = "deleted" /\ on_deleted(event, WATCHED_PATH) ->
                 /\ w_fatal' = "deleted"
                 /\ w_thread' = "exited"
                 /\ UNCHANGED <<w_next, w_running, w_triggers>>
            [] OTHER ->
                 /\ w_next' = w_next + 1
                 /\ UNCHANGED <<w_thread, w_running, w_triggers, w_fatal>>
    /\ UNCHANGED <<w_pc, w_events, unwatched_vars>>

\* display_run returns to on_modified, or an exception of the evaluation ends
\* the observer thread.
CallbackEnds ==
    /\ w_thread = "in_callback"
    /\ w_running' = w_running \ {"observer"}
    /\ \/ w_thread' = "idle" /\ w_next' = w_next + 1
       \/ w_thread' = "exited" /\ UNCHANGED w_next
    /\ UNCHANGED <<w_pc, w_events, w_triggers, w_fatal, unwatched_vars>>

\* KeyboardInterrupt in the sleep loop: observer.stop().
Interrupt ==
    /\ w_pc = "sleeping"
    /\ w_pc' = "stopping"
    /\ UNCHANGED <<w_events, w_next, w_thread, w_running, w_triggers, w_fatal,
                   unwatched_vars>>

\* The stopped observer thread leaves its loop once no handler is running.
ObserverExits ==
    /\ w_pc = "stopping"
    /\ w_thread = "idle"
    /\ w_thread' = "exited"
    /\ UNCHANGED <<w_pc, w_events, w_next, w_running, w_triggers, w_fatal,
                   unwatched_vars>>

\* observer.join() returns.
Join ==
    /\ w_pc = "stopping"
    /\ w_thread = "exited"
    /\ w_pc' = "stopped"
    /\ UNCHANGED <<w_events, w_next, w_thread, w_running, w_triggers, w_fatal,
                   unwatched_vars>>

NextWatch ==
    \/ HandlerInit \/ InitialRunEnds \/ ObserverStart \/ EmitEvent \/ Dispatch
    \/ CallbackEnds \/ Interrupt \/ ObserverExits \/ Join

SpecWatch == InitWatch /\ [][NextWatch]_vars

(***************************************************************************)
(* Reference notions the properties are stated with.                       *)
(***************************************************************************)
\* A node is an occurrence of the target of constraint c.
IsOccurrence(n, c) ==
    CASE c.on = "call" -> n.kind = "Call" /\ n.func.kind = "Name" /\ n.func.id = c.match
      [] c.on = "node" -> n.kind = c.match
      [] OTHER -> n.kind \in {"Import", "ImportFrom"}

Occurrences(t, c) == Cardinality({i \in 1..Len(t) : IsOccurrence(t[i], c)})

WithinLimits(c, count) ==
    /\ c.limits.minimum.set => count >= c.limits.minimum.value
    /\ c.limits.maximum.set => count <= c.limits.maximum.value

Violated(t, cs) == {c \in Range(cs) : ~WithinLimits(c, Occurrences(t, c))}

StageOrder == <<"parse", "critical", "exercise", "execute", "compare">>
IsPrefix(a, b) == Len(a) <= Len(b) /\ SubSeq(b, 1, Len(a)) = a

RunEnded == pc \in {"done", "raised"}
ExecuteReturned == pc \in {"executed", "compare", "done"} /\ "execute" \in Range(stages)

\* The stream the exercise selects differs from the expected output.
OutputDiffers ==
    /\ exercise.check_expected_output_from # "no-check"
    /\ LET outputs == ExecutionOutputs(result)
           lines == IF exercise.check_expected_output_from = "attempt"
                    THEN outputs.attempt ELSE outputs.postrun
       IN LStrip(RStrip(exercise.expected_output)) # LStrip(RStrip(JoinLines(lines)))

\* The variant the first failing stage gives.
FirstFailure ==
    IF ~AstParse(code).ok THEN "FailAST"
    ELSE IF Violated(AstParse(code).tree, CRITICAL_CONSTRAINTS) # {}
    THEN "FailConstraints critical"
    ELSE IF Violated(AstParse(code).tree, exercise.constraints) # {}
    THEN "FailConstraints"
    ELSE IF ~result.success THEN "FailProgramError"
    ELSE IF OutputDiffers THEN "FailOutput"
    ELSE "Pass"

OutcomeKind ==
    IF outcome.variant = "FailConstraints" /\ outcome.critical
    THEN "FailConstraints critical" ELSE outcome.variant

(***************************************************************************)
(* Properties                                                              *)
(***************************************************************************)
\* C1: for every attempt source and exercise, Exercise.run evaluates the stages
\* in the order parse, critical scan, exercise scan, execute, compare, and ends
\* by returning the outcome of the first stage that fails, Pass if none does.
C1_FirstFailingStageDecides ==
    /\ IsPrefix(stages, StageOrder)
    /\ RunEnded => pc = "done" /\ OutcomeKind = FirstFailure

\* What holds of C1 on the runs that do return.
C1_ReturnedOutcomeIsFirstFailure ==
    /\ IsPrefix(stages, StageOrder)
    /\ pc = "done" => OutcomeKind = FirstFailure

\* C2: Exercise.run never raises to its caller; it ends with exactly one of the
\* five outcome variants, a harness failure being FailProgramError with the
\* message of the harness.
C2_RunNeverRaises ==
    /\ pc # "raised"
    /\ raised = "none"
    /\ pc = "done" =>
         /\ outcome.variant \in {"FailAST", "FailConstraints", "FailProgramError",
                                 "FailOutput", "Pass"}
         /\ ("execute" \in Range(stages) /\ ~result.success) =>
                outcome = FailProgramError(result.output)

\* C3: when the critical scan finds a violation, the outcome is FailConstraints
\* with critical = TRUE and the constraints of the exercise are never scanned.
C3_CriticalShortCircuits ==
    failed_criticals # {} =>
        /\ pc = "done"
        /\ outcome.variant = "FailConstraints"
        /\ outcome.critical
        /\ "exercise" \notin Range(stages)
        /\ stages = <<"parse", "critical">>

C3_Witness ==
    /\ pc = "done"
    /\ failed_criticals # {}
    /\ Violated(AstParse(code).tree, exercise.constraints) # {}

\* C4: in a run that ends FailAST or FailConstraints the engine is never
\* invoked; execute_attempt is called only after the parse and both scans passed.
C4_NoExecutionBeforeChecksPass ==
    /\ outcome.variant \in {"FailAST", "FailConstraints"} =>
          /\ invocations = 0
          /\ task = "none"
          /\ "execute" \notin Range(stages)
    /\ ("execute" \in Range(stages) \/ invocations > 0) =>
          /\ AstParse(code).ok
          /\ Violated(AstParse(code).tree, CRITICAL_CONSTRAINTS) = {}
          /\ Violated(AstParse(code).tree, exercise.constraints) = {}
          /\ SubSeq(stages, 1, 4) = <<"parse", "critical", "exercise", "execute">>

C4_Witness ==
    /\ pc = "done"
    /\ outcome.variant = "FailConstraints"
    /\ ~outcome.critical
    /\ invocations = 0

\* C5: for every well-formed tree and constraint list, check_constraints returns
\* exactly the constraints whose occurrence count over the whole tree is outside
\* their limits: all of them, and no satisfied one.
C5_ReturnsExactlyViolated ==
    scan_pc \in {"returned", "raised"} =>
        /\ scan_pc = "returned"
        /\ scan_result = Violated(tree, constraints)

\* What holds of C5 on the scans that do return.
C5_ReturnedSetIsExact ==
    scan_pc = "returned" => scan_result = Violated(tree, constraints)

\* C6: on every well-formed tree and constraint list the scanner completes the
\* walk and returns, without raising.
C6_ScannerNeverRaises == scan_pc # "raised"

IsPlainNameCall(n, name) ==
    n.kind = "Call" /\ n.func.kind = "Name" /\ n.func.id = name

\* The nodes generic_visit has been called on.
Visited == 1..(IF scan_pc = "raised" THEN scan_pos ELSE scan_pos - 1)

\* C7: the counter of a Call-target constraint counts exactly the visited call
\* nodes whose callee is a plain name equal to the target; a call through
\* anything else than a plain name leaves every such counter unchanged.
C7_CallCountersCountPlainNameCalls ==
    scan_pc # "idle" =>
        \A c \in DOMAIN constraint_counts :
            c.on = "call" =>
                constraint_counts[c] =
                    Cardinality({i \in Visited : IsPlainNameCall(tree[i], c.match)})

C7_Witness ==
    /\ scan_pc = "raised"
    /\ tree[scan_pos] = AttributeCall
    /\ \E c \in DOMAIN constraint_counts : c.on = "call" /\ constraint_counts[c] > 0

\* The captured output holds a BEGIN sentinel and an END sentinel after it.
Framed(out) ==
    \E i, j \in 1..Len(out) :
        i < j /\ out[i] = BEGIN_SENTINEL /\ out[j] = END_SENTINEL

\* The text from the first BEGIN sentinel to the first END sentinel after it.
TextBetween(out) ==
    LET i == CHOOSE k \in 1..Len(out) :
                /\ out[k] = BEGIN_SENTINEL
                /\ \A m \in 1..(k - 1) : out[m] # BEGIN_SENTINEL
        j == CHOOSE k \in (i + 1)..Len(out) :
                /\ out[k] = END_SENTINEL
                /\ \A m \in (i + 1)..(k - 1) : out[m] # END_SENTINEL
    IN SubSeq(out, i + 1, j - 1)

SentinelsAbsent(out) ==
    \A i \in 1..Len(out) : out[i] \notin {BEGIN_SENTINEL, END_SENTINEL}

\* The three ways: no sentinels at all, framed text that is no JSON, or framed
\* JSON without a required field.
Malformed(out) ==
    \/ SentinelsAbsent(out)
    \/ Framed(out) /\ TextBetween(out) # <<ENVELOPE_JSON>>

EngineSucceededWith(out) ==
    /\ invocations > 0
    /\ pc \in {"executed", "compare", "done", "raised"}
    /\ ~sandbox_result.none
    /\ sandbox_result.status = "success"
    /\ sandbox_result.stdout = Some(out)

\* C8: when the engine reported success and its captured output is malformed in
\* one of the three ways, execute_attempt returns success = FALSE and does not raise.
C8_MalformedOutputIsFailure ==
    \A out \in SeqsUpTo(OutTokens, MaxOut) :
        (EngineSucceededWith(out) /\ Malformed(out)) =>
            pc # "raised" /\ ~result.success

\* What holds of C8 when the sentinels are there.
C8_FramedMalformedIsFailure ==
    \A out \in SeqsUpTo(OutTokens, MaxOut) :
        (EngineSucceededWith(out) /\ Framed(out) /\ Malformed(out)) =>
            pc # "raised" /\ ~result.success

\* C9: when the deadline elapses with the engine invocation incomplete, the
\* result of the harness is the timeout failure and never a success, also when
\* the engine completes afterwards.
C9_TimeoutIsFailure ==
    timer = "fired" =>
        /\ pc \in {"classify", "executed", "done"}
        /\ sandbox_result.none
        /\ pc \in {"executed", "done"} =>
              result = ExecutionResult(FALSE, TIMEOUT_MESSAGE, NoTokens, NoTime)
        /\ pc = "done" => outcome = FailProgramError(TIMEOUT_MESSAGE)

C9_Witness ==
    /\ timer = "fired"
    /\ pc = "done"
    /\ task = "finished_late"
    /\ task_result.status = "success"
    /\ task_result.stdout =
          Some(<<BEGIN_SENTINEL, ENVELOPE_JSON, END_SENTINEL>>)

\* C10: every call of execute_attempt eventually returns a result, whether the
\* engine invocation completes, fails or never completes.
C10_ExecuteAttemptReturns == [](pc = "assemble" => <>ExecuteReturned)

\* What holds of C10: every call ends, by returning or by raising, and the
\* wait never outlasts the timer.
C10_ExecuteAttemptEnds ==
    [](pc = "assemble" => <>(ExecuteReturned \/ pc = "raised"))
C10_WaitEndsWithTimer == pc = "waiting" => timer = "pending"

\* The trusted fragments of the exercise, in assembly order, with their labels.
TrustedExerciseFragments ==
    <<[name |-> "exercise prerun", text |-> exercise.code.prerun],
      [name |-> "exercise postrun", text |-> exercise.code.postrun]>>

\* The first trusted fragment that does not parse (0 when each one parses).
FirstMalformed ==
    LET bad == {i \in 1..2 : BadStmt \in Range(TrustedExerciseFragments[i].text)}
    IN IF bad = {} THEN 0 ELSE CHOOSE i \in bad : \A j \in bad : i <= j

\* C11: every call of execute_attempt performs exactly one engine invocation: no
\* second invocation is ever started, after a failure or a timeout either, and no
\* call returns without having invoked the engine once.
C11_ExactlyOneInvocation ==
    /\ invocations <= 1
    /\ task \in {"done", "cancelled", "finished_late"} => invocations = 1
    /\ ExecuteReturned => invocations = 1

\* What holds of C11: never a second invocation, and exactly one in every call
\* whose fragments all parse.
C11_AtMostOneInvocation ==
    /\ invocations <= 1
    /\ task \in {"done", "cancelled", "finished_late"} => invocations = 1
    /\ (ExecuteReturned /\ FirstMalformed = 0) => invocations = 1
    /\ (ExecuteReturned /\ FirstMalformed # 0) => invocations = 0

\* C12: a trusted fragment that does not parse is not turned into an outcome:
\* the evaluation aborts with the syntax error labelled with the fragment and the
\* line, and Exercise.run returns no Outcome variant for it.
C12_MalformedFragmentAborts ==
    (FirstMalformed # 0 /\ "execute" \in Range(stages) /\ RunEnded) =>
        /\ pc = "raised"
        /\ outcome = NoOutcome

\* What holds of C12: the error is labelled with the first malformed fragment
\* and its line, the engine is not invoked, and the label is returned as the
\* FailProgramError outcome.
C12_MalformedFragmentIsLabelled ==
    (FirstMalformed # 0 /\ "execute" \in Range(stages) /\ RunEnded) =>
        LET bad == TrustedExerciseFragments[FirstMalformed]
        IN /\ pc = "done"
           /\ invocations = 0
           /\ outcome = FailProgramError(
                  SyntaxErrorMessage(bad.name, FirstIndex(bad.text, BadStmt)))

\* The fragment the assembly loop is at, and the place of the attempt in it.
CurrentFragment == CallAssembly[asm_pos]
AttemptIndex == CHOOSE i \in 1..Len(CallAssembly) : CallAssembly[i].name = "attempt"
AtFragment == asm_pc = "assembling" /\ asm_pos <= Len(CallAssembly)

\* The spellings of the identifiers of a text, line by line.
Spellings(text) ==
    [i \in 1..Len(text) |-> [j \in 1..Len(text[i].idents) |-> text[i].idents[j].id]]

\* The lines this step has written to the program text.
Written == SubSeq(assembled', Len(assembled) + 1, Len(assembled'))

HasReservedName(text) ==
    \E i \in 1..Len(text) : \E j \in 1..Len(text[i].idents) :
        StartsWith(text[i].idents[j].id, MANGLE_PREFIX)

\* C13: the attempt fragment is never mangled: each of its identifiers, one with
\* the reserved prefix too, is written unchanged to the assembled program, and
\* processing it adds no entry to the mangling cache.
C13_AttemptIsNeverMangled ==
    [][(AtFragment /\ asm_pos = AttemptIndex) =>
          /\ mangle_cache' = mangle_cache
          /\ call.attempt_code # <<>> =>
                /\ Len(Written) = Len(call.attempt_code) + 1
                /\ Spellings(SubSeq(Written, 1, Len(call.attempt_code)))
                       = Spellings(call.attempt_code)
          /\ call.attempt_code = <<>> => Written = <<>>]_vars

\* The attempt has been written, it uses a reserved name, and the same name has
\* been mangled for the exercise prerun.
C13_Witness ==
    /\ asm_pc = "assembling"
    /\ asm_pos = AttemptIndex + 1
    /\ HasReservedName(call.attempt_code)
    /\ \E e \in mangle_cache :
          /\ e.name = Reserved("x") /\ e.salt = SALT_EXERCISE /\ e.value # e.name
          /\ \E i \in 1..Len(assembled) : \E j \in 1..Len(assembled[i].idents) :
                assembled[i].idents[j].id = e.value
    /\ \E i \in 1..Len(assembled) : \E j \in 1..Len(assembled[i].idents) :
          assembled[i].idents[j].id = Reserved("x")

SameKey(e1, e2) == e1.name = e2.name /\ e1.salt = e2.salt

\* C14: over the calls of one process the mangling cache is append-only and
\* stable: no entry is changed or removed, a (salt, name) pair has one entry, and
\* a later mangling of a pair already in the cache returns the cached name.
C14_CacheIsAppendOnlyAndStable ==
    [][/\ mangle_cache \subseteq mangle_cache'
       /\ \A e1, e2 \in mangle_cache' : SameKey(e1, e2) => e1 = e2
       /\ (AtFragment /\ CurrentFragment.mangle_salt.present /\ asm_pc' = "assembling") =>
             \A i \in 1..Len(CurrentFragment.text) :
                \A j \in 1..Len(CurrentFragment.text[i].idents) :
                   CurrentFragment.text[i].idents[j].pos = "Name" =>
                      \A e \in mangle_cache :
                         (/\ e.name = CurrentFragment.text[i].idents[j].id
                          /\ e.salt = CurrentFragment.mangle_salt.value)
                         => Written[i].idents[j].id = e.value]_vars

\* In the second call the system fragment has been written with the name the
\* first call mangled.
C14_Witness ==
    /\ calls = 2
    /\ asm_pc = "assembling"
    /\ asm_pos = 2
    /\ \E e \in mangle_cache :
          /\ e.name = Reserved("out") /\ e.salt = SALT_SYSTEM /\ e.value # e.name
          /\ assembled[1].idents[1].id = e.value

\* C15: mangling is idempotent for a fixed salt: _prepare_python_source on a
\* text it returned for a trusted fragment, with the same salt, returns that
\* text unchanged.
C15_ManglingIsIdempotent ==
    [][(prep_pc = "again" /\ prep_salt.present) =>
          /\ prep_pc' = "returned_again"
          /\ prep_out' = prep_text]_vars

\* A mangled fragment with a mangled name in it has been mangled again.
C15_Witness ==
    /\ prep_pc = "returned_again"
    /\ prep_salt.present
    /\ prep_out = prep_text
    /\ \E e \in mangle_cache :
          /\ StartsWith(e.name, MANGLE_PREFIX) /\ e.salt = prep_salt.value
          /\ e.value # e.name
          /\ \E i \in 1..Len(prep_out) : \E j \in 1..Len(prep_out[i].idents) :
                prep_out[i].idents[j].id = e.value
    /\ \E e \in mangle_cache : ~StartsWith(e.name, MANGLE_PREFIX) /\ Len(e.name) > 1

\* The execution succeeded and Exercise.run has returned.
RunEndedAfterSuccess == pc = "done" /\ "execute" \in Range(stages) /\ result.success

\* The selected stream, trimmed at both ends.
SelectedTrimmed ==
    LET outputs == ExecutionOutputs(result)
    IN LStrip(RStrip(JoinLines(IF exercise.check_expected_output_from = "attempt"
                               THEN outputs.attempt ELSE outputs.postrun)))

ViolatedCriticals == Violated(AstParse(code).tree, CRITICAL_CONSTRAINTS)

\* C17: for every attempt that parses and holds an import statement or a
\* plain-name call of exec, eval or open, the outcome is FailConstraints with
\* critical = TRUE and the descriptions of exactly the violated critical
\* constraints, whatever constraints the exercise defines.
C17_CriticalViolationIsReported ==
    (RunEnded /\ AstParse(code).ok /\ ViolatedCriticals # {}) =>
        /\ pc = "done"
        /\ outcome = FailConstraints(TRUE, Descriptions(ViolatedCriticals))

\* What holds of C17 on the runs that do return.
C17_ReturnedCriticalsAreExact ==
    (pc = "done" /\ AstParse(code).ok /\ ViolatedCriticals # {}) =>
        outcome = FailConstraints(TRUE, Descriptions(ViolatedCriticals))

\* C18: is_satisfied(count) is true exactly when (the minimum is unset or count
\* >= minimum) and (the maximum is unset or count <= maximum), for every count
\* and every combination of set and unset bounds; with both unset it is true
\* for every count.
C18_SatisfiedIffWithinBounds ==
    scan_pc = "returned" =>
        \A c \in Range(constraints) :
            LET count == constraint_counts[c]
                minimum == c.limits.minimum
                maximum == c.limits.maximum
            IN /\ c \notin scan_result <=>
                     /\ (~minimum.set \/ count >= minimum.value)
                     /\ (~maximum.set \/ count <= maximum.value)
               /\ (~minimum.set /\ ~maximum.set) => c \notin scan_result

\* A count equal to both bounds satisfies them, next to an unbounded count.
C18_Witness ==
    /\ scan_pc = "returned"
    /\ \E c \in Range(constraints) :
          /\ c.limits.minimum.set /\ c.limits.maximum.set
          /\ constraint_counts[c] = c.limits.maximum.value
          /\ c \notin scan_result
    /\ \E c \in Range(constraints) :
          /\ ~c.limits.minimum.set /\ ~c.limits.maximum.set
          /\ constraint_counts[c] > 1
          /\ c \notin scan_result

\* A constraint as DisallowedCall and DisallowedNode build it.
IsDisallowed(c) ==
    c.on \in {"call", "node"} /\ ~c.limits.minimum.set
        /\ c.limits.maximum.set /\ c.limits.maximum.value = 0

\* C19: check_constraints reports a constraint built by DisallowedCall or
\* DisallowedNode exactly when the scanned program holds at least one occurrence
\* of its target.
C19_DisallowedReportedIffOccurs ==
    scan_pc \in {"returned", "raised"} =>
        \A c \in Range(constraints) :
            IsDisallowed(c) => (c \in scan_result <=> Occurrences(tree, c) >= 1)

\* What holds of C19 on the scans that do return.
C19_ReturnedDisallowedIffOccurs ==
    scan_pc = "returned" =>
        \A c \in Range(constraints) :
            IsDisallowed(c) => (c \in scan_result <=> Occurrences(tree, c) >= 1)

\* C20: the watch loop serializes evaluations: over the initial run and any
\* sequence of file-system events no two evaluations are in progress at once,
\* each modification event of the watched file starts at most one evaluation,
\* and an event for another path or for a directory starts none.
C20_WatchSerializesEvaluations ==
    /\ Cardinality(w_running) <= 1
    /\ \A i \in 1..Len(w_events) :
          /\ w_triggers[i] <= 1
          /\ (\/ w_events[i].src_path # WATCHED_PATH
              \/ w_events[i].cls \in {"DirModifiedEvent", "DirDeletedEvent",
                                      "DirMovedEvent"})
             => w_triggers[i] = 0

\* An evaluation is in progress for a modification of the watched file while a
\* second modification of it waits in the queue.
C20_Witness ==
    /\ w_thread = "in_callback"
    /\ w_running = {"observer"}
    /\ Len(w_events) = 2
    /\ w_next = 1
    /\ w_events[1] = FileSystemEvent("FileModifiedEvent", WATCHED_PATH)
    /\ w_events[2] = FileSystemEvent("FileModifiedEvent", WATCHED_PATH)
    /\ w_triggers = <<1, 0>>

\* The call of execute_attempt is past asyncio.wait.
WaitReturned ==
    /\ invocations = 1
    /\ pc \in {"classify", "executed", "compare", "done", "raised"}

\* C21: the invocation and the timer form a single-winner race: exactly one of
\* "invocation completed" and "deadline elapsed" determines the result of the
\* harness; when the deadline wins the task is cancelled and what it produces
\* afterwards never reaches the returned ExecutionResult.
C21_SingleWinnerRace ==
    WaitReturned =>
        /\ timer \in {"dropped", "fired"}
        /\ timer = "dropped" =>
              /\ task = "done"
              /\ ~task_result.none
              /\ sandbox_result = task_result
              /\ ExecuteReturned => result = ClassifySandboxResult(task_result).result
        /\ timer = "fired" =>
              /\ task \in {"cancelled", "finished_late"}
              /\ sandbox_result = NoSandboxResult
              /\ ExecuteReturned =>
                    result = ExecutionResult(FALSE, TIMEOUT_MESSAGE, NoTokens, NoTime)

\* The deadline won, the cancelled invocation produced an error trace afterwards,
\* and the call returned the timeout failure.
C21_Witness ==
    /\ WaitReturned
    /\ ExecuteReturned
    /\ timer = "fired"
    /\ task = "finished_late"
    /\ task_result.status = "error"
    /\ task_result.stderr.present
    /\ result.output = TIMEOUT_MESSAGE

\* The call of execute_attempt is past the classification of the sandbox result.
Classified ==
    /\ invocations = 1
    /\ pc \in {"executed", "compare", "done", "raised"}

\* The invocation completed before the deadline with status success and a
\* captured stdout whose text between the sentinels is a schema-valid envelope.
ValidEnvelopeReceived ==
    /\ timer = "dropped"
    /\ ~sandbox_result.none
    /\ sandbox_result.status = "success"
    /\ sandbox_result.stdout.present
    /\ Framed(sandbox_result.stdout.value)
    /\ TextBetween(sandbox_result.stdout.value) = <<ENVELOPE_JSON>>

\* What the code decodes: the text after the first BEGIN sentinel, up to the
\* first END sentinel after it or, without one, to the end of the output.
EnvelopeAfterBegin ==
    /\ timer = "dropped"
    /\ ~sandbox_result.none
    /\ sandbox_result.status = "success"
    /\ sandbox_result.stdout.present
    /\ LET out == sandbox_result.stdout.value
           b == FirstIndex(out, BEGIN_SENTINEL)
           rest == SubSeq(out, b + 1, Len(out))
           e == FirstIndex(rest, END_SENTINEL)
       IN /\ b # 0
          /\ (IF e = 0 THEN rest ELSE SubSeq(rest, 1, e - 1)) = <<ENVELOPE_JSON>>

\* C22: execute_attempt returns success = TRUE only when the invocation completed
\* before the deadline, the status is success, stdout is present and the text
\* between the sentinels decodes to a schema-valid envelope; in every other case
\* it returns success = FALSE with tokens unset; on success the output is the
\* envelope's stdout lines joined by newlines, with its tokens and attempt time.
C22_SuccessIffValidEnvelope ==
    /\ (ExecuteReturned /\ invocations = 0) =>
          ~result.success /\ result.tokens = NoTokens
    /\ Classified =>
          /\ pc # "raised"
          /\ result.success <=> ValidEnvelopeReceived
          /\ ~result.success => result.tokens = NoTokens
          /\ result.success =>
                /\ result.output = JoinLines(ENVELOPE_STDOUT)
                /\ result.tokens = Some({})
                /\ result.attempt_time_seconds = Some(1)

\* What holds of C22: a call that returns has success = TRUE exactly when the
\* text after the first BEGIN sentinel, up to the END sentinel if there is one,
\* is a schema-valid envelope; a failure has tokens unset and a success carries
\* the envelope; the call raises exactly when the BEGIN sentinel is missing.
C22_ReturnedSuccessIffDecoded ==
    /\ (ExecuteReturned /\ invocations = 0) =>
          ~result.success /\ result.tokens = NoTokens
    /\ (Classified /\ pc # "raised") =>
          /\ result.success <=> EnvelopeAfterBegin
          /\ ~result.success => result.tokens = NoTokens
          /\ result.success =>
                /\ result.output = JoinLines(ENVELOPE_STDOUT)
                /\ result.tokens = Some({})
                /\ result.attempt_time_seconds = Some(1)
    /\ (Classified /\ pc = "raised") =>
          /\ timer = "dropped"
          /\ sandbox_result.status = "success"
          /\ sandbox_result.stdout.present
          /\ FirstIndex(sandbox_result.stdout.value, BEGIN_SENTINEL) = 0

\* The last line of a text, told without splitting it: the text after the last
\* line break that is not the final character.
LastLineOf(t) ==
    LET body == IF t[Len(t)] = "\n" THEN SubSeq(t, 1, Len(t) - 1) ELSE t
        breaks == {i \in 1..Len(body) : body[i] = "\n"}
        last == IF breaks = {} THEN 0 ELSE CHOOSE i \in breaks : \A j \in breaks : j <= i
    IN [text |-> SubSeq(body, last + 1, Len(body)), several |-> breaks # {}]

\* C23: when the engine reports a non-success status, the message of the failure
\* is the last line of the engine's diagnostic, not the trace as a whole; when
\* the diagnostic is absent or has no lines it is the fixed default message.
C23_MessageIsLastLine ==
    (Classified /\ ~sandbox_result.none /\ sandbox_result.status # "success") =>
        /\ pc # "raised"
        /\ ~result.success
        /\ LET err == sandbox_result.stderr
           IN IF ~err.present \/ err.value = <<>>
              THEN result.output = DEFAULT_ERROR
              ELSE /\ result.output = LastLineOf(err.value).text
                   /\ "\n" \notin Range(result.output)
                   /\ LastLineOf(err.value).several => result.output # err.value

C23_Witness ==
    /\ Classified
    /\ sandbox_result.status = "error"
    /\ sandbox_result.stderr = Some(<<"Traceback", "\n", "NameError", "\n">>)
    /\ result.output = <<"NameError">>

\* This step writes a trusted fragment (one with a mangle salt) to the program.
WritesTrusted ==
    /\ AtFragment
    /\ CurrentFragment.mangle_salt.present
    /\ CurrentFragment.text # <<>>
    /\ asm_pc' = "assembling"

\* C24: in every trusted fragment each identifier occurrence that begins with
\* the reserved prefix is rewritten to its mangled name, whatever its syntactic
\* position (name, definition name, parameter, attribute): a definition and its
\* uses are renamed alike and no reserved-prefix identifier is left in the text
\* written for the fragment.
C24_EveryReservedOccurrenceIsMangled ==
    [][WritesTrusted =>
          LET text == CurrentFragment.text
          IN /\ ~HasReservedName(Written)
             /\ \A i, k \in 1..Len(text) :
                   \A j \in 1..Len(text[i].idents), l \in 1..Len(text[k].idents) :
                      text[i].idents[j].id = text[k].idents[l].id =>
                         Written[i].idents[j].id = Written[k].idents[l].id]_vars

\* What holds of C24: the reserved-prefix occurrences that are name references
\* are rewritten to the cached mangled name of (name, salt); an occurrence in
\* any other position is written as it was.
C24_NameOccurrencesAreMangled ==
    [][WritesTrusted =>
          LET text == CurrentFragment.text
          IN \A i \in 1..Len(text) : \A j \in 1..Len(text[i].idents) :
                LET ident == text[i].idents[j]
                IN IF ident.pos = "Name" /\ StartsWith(ident.id, MANGLE_PREFIX)
                   THEN /\ ~StartsWith(Written[i].idents[j].id, MANGLE_PREFIX)
                        /\ [name |-> ident.id, salt |-> CurrentFragment.mangle_salt.value,
                            value |-> Written[i].idents[j].id] \in mangle_cache'
                   ELSE Written[i].idents[j].id = ident.id]_vars

\* C25: mangling is injective on the identifiers with the reserved prefix: two
\* different (salt, name) pairs never have the same mangled name, the same name
\* under the system salt and the exercise salt in particular; an identifier
\* without the reserved prefix is returned unchanged whatever the salt.
C25_ManglingIsInjective ==
    \A e1, e2 \in mangle_cache :
        /\ (/\ StartsWith(e1.name, MANGLE_PREFIX)
            /\ StartsWith(e2.name, MANGLE_PREFIX)
            /\ ~SameKey(e1, e2)) => e1.value # e2.value
        /\ StartsWith(e1.name, MANGLE_PREFIX) => e1.value # e1.name
        /\ ~StartsWith(e1.name, MANGLE_PREFIX) => e1.value = e1.name

\* The same reserved name has been mangled under the system salt and under the
\* exercise salt with the same random token, and a name without the prefix has
\* gone through the mangler under each salt.
C25_Witness ==
    /\ \E tok \in Tokens :
          /\ [name |-> Reserved("x"), salt |-> SALT_SYSTEM,
              value |-> MangledName(Reserved("x"), SALT_SYSTEM, tok)] \in mangle_cache
          /\ [name |-> Reserved("x"), salt |-> SALT_EXERCISE,
              value |-> MangledName(Reserved("x"), SALT_EXERCISE, tok)] \in mangle_cache
    /\ \A salt \in {SALT_SYSTEM, SALT_EXERCISE} :
          [name |-> Plain("print"), salt |-> salt, value |-> Plain("print")]
              \in mangle_cache

\* The statements of the given texts in the given order, each non-empty text
\* followed by one blank line.
RECURSIVE Concatenated(_)
Concatenated(texts) ==
    IF texts = <<>> THEN <<>>
    ELSE (IF Head(texts) = <<>> THEN <<>>
          ELSE [i \in 1..Len(Head(texts)) |-> Head(texts)[i].stmt] \o <<"">>)
         \o Concatenated(Tail(texts))

\* The statements of the lines of a program text.
StmtsOf(program) == [i \in 1..Len(program) |-> program[i].stmt]

\* C26: the assembled program is the concatenation of the non-empty fragments in
\* the fixed order system-pre, exercise prerun, system-mid, attempt, system-mid-2,
\* exercise postrun, system-post, each followed by a blank-line separator; the
\* order does not depend on the fragments' content, and the attempt comes after
\* the prerun and before the postrun.
C26_FragmentsInFixedOrder ==
    asm_pc = "assembled" =>
        /\ StmtsOf(assembled) =
              Concatenated(<<SNIPPET_01, call.exercise_prerun, SNIPPET_03,
                             call.attempt_code, SNIPPET_05, call.exercise_postrun,
                             SNIPPET_07>>)
        /\ \A i \in 1..Len(assembled) : assembled[i].layout = "canonical"

\* A program has been assembled from a prerun, an attempt and a postrun that
\* are all there and all different.
C26_Witness ==
    /\ asm_pc = "assembled"
    /\ call.exercise_prerun = SourceText(<<"_RZ_MANGLE__x = 1">>)
    /\ call.attempt_code = SourceText(<<"print(s)">>)
    /\ Len(call.exercise_postrun) = 2
    /\ Len(assembled) = 15

\* C27: an empty fragment (an unset exercise prerun or postrun) is skipped
\* entirely: the iteration on it leaves the program text and the mangling cache
\* as they would be without the fragment in the list: no separator line is
\* written and no cache entry is made, and the loop goes on to the next fragment.
C27_EmptyFragmentIsSkipped ==
    [][(AtFragment /\ CurrentFragment.text = <<>>) =>
          /\ assembled' = assembled
          /\ mangle_cache' = mangle_cache
          /\ asm_pc' = "assembling"
          /\ asm_pos' = asm_pos + 1]_vars

\* The loop has passed an unset prerun and an unset postrun and has written the
\* five other fragments.
C27_Witness ==
    /\ asm_pc = "assembled"
    /\ call.exercise_prerun = <<>>
    /\ call.exercise_postrun = <<>>
    /\ call.attempt_code # <<>>
    /\ StmtsOf(assembled) =
          Concatenated(<<SNIPPET_01, SNIPPET_03, call.attempt_code, SNIPPET_05,
                         SNIPPET_07>>)

\* The engine reported success with a captured output that holds a BEGIN
\* sentinel and an END sentinel after it, and the call has classified it.
FramedOutputClassified ==
    /\ Classified
    /\ ~sandbox_result.none
    /\ sandbox_result.status = "success"
    /\ sandbox_result.stdout.present
    /\ Framed(sandbox_result.stdout.value)

\* C28: for a captured output with a BEGIN sentinel and an END sentinel after
\* it, the text the harness decodes is exactly the text strictly between the
\* first BEGIN sentinel and the first END sentinel after it; an END sentinel
\* ahead of the first BEGIN, or further sentinels later on, do not change it.
C28_DecodedTextIsBetweenFirstSentinels ==
    FramedOutputClassified =>
        /\ pc # "raised"
        /\ decoded = Some(TextBetween(sandbox_result.stdout.value))
        /\ result.success <=>
              TextBetween(sandbox_result.stdout.value) = <<ENVELOPE_JSON>>

\* The envelope was decoded from an output with a later pair of sentinels, and
\* from one with an END sentinel ahead of the first BEGIN.
C28_Witness ==
    /\ FramedOutputClassified
    /\ sandbox_result.stdout.value \in
          {<<BEGIN_SENTINEL, ENVELOPE_JSON, END_SENTINEL, BEGIN_SENTINEL, NOISE,
             END_SENTINEL>>,
           <<END_SENTINEL, BEGIN_SENTINEL, ENVELOPE_JSON, END_SENTINEL>>}
    /\ decoded = Some(<<ENVELOPE_JSON>>)
    /\ result.success

\* This step is the observer thread dispatching the next queued event.
DispatchesNext ==
    /\ w_pc = "sleeping" /\ w_pc' = "sleeping"
    /\ w_thread = "idle"
    /\ w_next <= Len(w_events)
    /\ w_events' = w_events
    /\ <<w_next, w_thread, w_fatal, w_running>>' # <<w_next, w_thread, w_fatal, w_running>>

\* C29: a deleted or moved event for the watched attempt file makes the watcher
\* report the fatal "file deleted" / "file moved" error and exit instead of
\* watching on; a deleted or moved event for another path does not end it.
C29_MissingFileIsFatal ==
    [][DispatchesNext =>
          LET event == w_events[w_next]
              kind == event_type(event)
          IN /\ (/\ event.cls \in {"FileDeletedEvent", "FileMovedEvent"}
                 /\ event.src_path = WATCHED_PATH) =>
                    /\ w_fatal' = kind
                    /\ w_thread' = "exited"
             /\ (kind \in {"deleted", "moved"} /\ event.src_path # WATCHED_PATH) =>
                    /\ w_fatal' = "none"
                    /\ w_thread' = "idle"
                    /\ w_next' = w_next + 1]_vars

\* What holds of C29: no deleted or moved event ends the watcher or reports
\* anything, one for the watched file included: the observer thread passes it
\* over and watches on.
C29_DeletedAndMovedArePassedOver ==
    [][DispatchesNext =>
          (event_type(w_events[w_next]) \in {"deleted", "moved"} =>
              /\ w_fatal' = "none"
              /\ w_thread' = "idle"
              /\ w_next' = w_next + 1)]_vars

====
